---- MODULE Spec2Model ----
(***************************************************************************)
(* Mood-Spoiler: the WebcamFeed component (detection cascade, webcam       *)
(* effect, sampling) and the ChatInterface component (message history,     *)
(* reply request, reply sanitization), as state machines.                  *)
(***************************************************************************)
EXTENDS Integers, Sequences, FiniteSets, TLC

VARIABLES
    \* ---- WebcamFeed.tsx: component state (useState, lines 21-26)
    detectionMode,   \* 'loading' | 'faceapi' | 'tensorflow' | 'simulation'
    isLoading,
    isActive,
    error,           \* NoError, or the message last passed to setError
    currentEmotion,
    confidence,
    \* ---- WebcamFeed.tsx: initializeDetection / loadFaceAPI / loadTensorFlow
    initPc,          \* where the async initializeDetection is suspended
    urlIdx,          \* index into cdnUrls (0 before the loop)
    modelIdx,        \* index into modelUrls (0 outside the inner loop)
    fate,            \* how the awaited promise will settle: "ok" | "fail" | "never"
    faceapiDefined,  \* window.faceapi is truthy
    scripts,         \* script srcs appended to document.head
    faceApiLoaded,   \* local of initializeDetection: "unset" | "true" | "false"
    tensorflowLoaded,
    faceApiCalls,    \* number of invocations of loadFaceAPI
    tensorFlowCalls, \* number of invocations of loadTensorFlow
    \* ---- WebcamFeed.tsx: webcam effect (lines 218-269) and sampling
    mounted,
    effects,         \* one record per run of the effect (its closure)
    video,           \* the <video> element: srcObject / onloadedmetadata owner
    sampleThrew,     \* some sampling call threw
    recovered,       \* a sampling call has published since the last one that threw
    published,       \* the value last passed to onEmotionDetected
    \* ---- api.ts: ChatInterface state (lines 172-183) and its requests
    messages,
    inputText,
    isTyping,
    detectedEmotion, \* the prop of ChatInterface
    requests,        \* getAIBotReply calls in flight
    submitted,       \* the texts submitted by handleSendMessage, in call order
    submittedEmotion, \* detectedEmotion as it was at each of these calls
    settled,         \* the settled requests (turn, failed or not), in settlement order
    overlapped,      \* some submission was made while a request was in flight
    ignored,         \* handleSendMessage has returned at line 198
    \* ---- api.ts: the reply sanitizer applied on its own
    sParts,          \* the pieces the input is made of
    sIn, sOnce, sTwice,
    \* ---- WebcamFeed.tsx: detectEmotionsSimulation called on its own
    draws,           \* what Math.random() returned for the emotion, call by call
    samples          \* what each call published

camVars  == <<detectionMode, isLoading, isActive, error, currentEmotion, confidence,
              initPc, urlIdx, modelIdx, fate, faceapiDefined, scripts,
              faceApiLoaded, tensorflowLoaded, faceApiCalls, tensorFlowCalls,
              mounted, effects, video, sampleThrew, recovered, published>>
chatVars == <<messages, inputText, isTyping, detectedEmotion, requests, submitted,
              submittedEmotion, settled, overlapped, ignored>>
sanVars  == <<sParts, sIn, sOnce, sTwice>>
simVars  == <<draws, samples>>
vars     == <<camVars, chatVars, sanVars, simVars>>

-----------------------------------------------------------------------------
(* Bounds of the model *)

MaxEffectRuns == 3   \* runs of the webcam effect (mount, commit, re-runs)
MaxInFlight   == 1   \* detectAllFaces calls in flight per effect run
MaxTurns      == 2   \* user turns submitted

-----------------------------------------------------------------------------
(* WebcamFeed.tsx *)

NoError == "null"

\* cdnUrls (lines 31-34) and modelUrls (lines 56-59), by position
NumCdnUrls   == 2
NumModelUrls == 2
cdnUrls      == <<"https://cdn.jsdelivr.net/npm/face-api.js@0.22.2/dist/face-api.min.js",
                  "https://unpkg.com/face-api.js@0.22.2/dist/face-api.min.js">>
CdnUrl(i)    == cdnUrls[i]
TfUrl        == "https://cdn.jsdelivr.net/npm/@tensorflow/tfjs@latest/dist/tf.min.js"

Fates == {"ok", "fail", "never"}

\* Promise.all([a, b]) (lines 63-66): rejects as soon as one rejects, resolves
\* when both resolved, and stays pending otherwise.
PromiseAll(a, b) ==
    IF a = "fail" \/ b = "fail" THEN "fail"
    ELSE IF a = "ok" /\ b = "ok" THEN "ok"
    ELSE "never"

\* emotionMapping (lines 8-16): the keys that are mapped, each to itself
EmotionLabel == {"angry", "disgusted", "fearful", "happy", "neutral", "sad", "surprised"}
emotionMapping == [k \in EmotionLabel |-> k]

\* Labels a classifier can report as the strongest expression: the mapped keys and
\* one label that is not a key of emotionMapping.
RawLabels == EmotionLabel \cup {"contempt"}

\* const mappedEmotion = emotionMapping[maxExpression] || maxExpression   (line 154)
MappedEmotion(maxExpression) ==
    IF maxExpression \in DOMAIN emotionMapping
    THEN emotionMapping[maxExpression]
    ELSE maxExpression

\* The <video> element is rendered only past the loader and outside the error
\* pane (lines 315, 329, 336); videoRef.current is null otherwise.
VideoMounted(loading, err, active) ==
    /\ mounted
    /\ ~loading
    /\ ~(err # NoError /\ ~active)

\* One run of the webcam effect (lines 218-269): its closure variables.
NewEffect(mode) ==
    [ mode     |-> mode,
      gum      |-> IF mode # "loading" THEN "pending" ELSE "skipped",  \* line 257
      stream   |-> "none",      \* let stream = null
      interval |-> "none",      \* let detectionInterval
      inflight |-> 0,           \* detectAllFaces calls of this run's timer in flight
      cleaned  |-> FALSE ]

\* The cleanup the effect returned (lines 261-268), reading the closure as it is
\* when the cleanup runs.
Cleanup(e) ==
    [ e EXCEPT !.cleaned  = TRUE,
               !.stream   = IF @ = "live" THEN "stopped" ELSE @,
               !.interval = IF @ = "running" THEN "cleared" ELSE @ ]

\* A change of [detectionMode, onEmotionDetected] (line 269): the previous run's
\* cleanup, then the effect again.
RerunEffect(effs, mode) ==
    Append([effs EXCEPT ![Len(effs)] = Cleanup(@)], NewEffect(mode))

\* setDetectionMode(mode); [setError(err);] setIsLoading(false)  (lines 113-114,
\* 124-125, 131-133), and the webcam effect re-running on the new detectionMode.
Commit(mode, err) ==
    /\ detectionMode' = mode
    /\ error' = err
    /\ isLoading' = FALSE
    /\ initPc' = "done"
    /\ urlIdx' = 0 /\ modelIdx' = 0 /\ fate' = "ok"    \* the locals are gone
    /\ effects' = IF mounted THEN RerunEffect(effects, mode) ELSE effects

\* (mutant) the fallback forgets to set the mode
SimulationModeNotSet == "loading"

SimulationMode == "simulation"
SimulationError == "Could not load ML libraries. Using simulation mode."

\* const script = ...; document.head.appendChild(script)   (lines 86-96)
StartTensorFlow(f) ==
    /\ faceApiLoaded' = "false"
    /\ tensorFlowCalls' = tensorFlowCalls + 1
    /\ scripts' = scripts \cup {TfUrl}
    /\ initPc' = "tfPending"
    /\ fate' = f
    /\ urlIdx' = 0 /\ modelIdx' = 0     \* loadFaceAPI has returned

\* loadScript(cdnUrls[i]) (lines 36-48, 52)
LoadScript(i, f) ==
    /\ urlIdx' = i
    /\ modelIdx' = 0
    /\ IF CdnUrl(i) \in scripts
       THEN /\ initPc' = "delay"          \* resolve() at once (lines 38-41)
            /\ fate' = "ok"
            /\ scripts' = scripts
       ELSE /\ initPc' = "scriptPending"
            /\ fate' = f
            /\ scripts' = scripts \cup {CdnUrl(i)}
    /\ UNCHANGED <<faceApiLoaded, tensorFlowCalls>>

\* The next iteration of `for (const url of cdnUrls)` (line 50), or, past the
\* last url, `return false` (line 77) and the fallback of lines 118-120.
NextCdnUrl(f) ==
    IF urlIdx < NumCdnUrls THEN LoadScript(urlIdx + 1, f) ELSE StartTensorFlow(f)

unchangedSampling == <<isActive, currentEmotion, confidence, mounted, video,
                       sampleThrew, recovered, published>>

\* (mutant) the effect has no dependency list, so it also runs after the commit
InitializeDetectionEveryRender ==
    /\ initPc \in {"start", "done"}
    /\ faceApiCalls < 2
    /\ isLoading' = TRUE
    /\ faceApiCalls' = faceApiCalls + 1
    /\ \E f \in Fates : LoadScript(1, f)
    /\ UNCHANGED <<detectionMode, error, faceapiDefined, tensorflowLoaded,
                   effects>>
    /\ UNCHANGED unchangedSampling
    /\ UNCHANGED <<chatVars, sanVars, simVars>>

\* initializeDetection up to its first await (lines 104-109, 29-52)
InitializeDetection ==
    /\ initPc = "start"
    /\ isLoading' = TRUE
    /\ faceApiCalls' = faceApiCalls + 1
    /\ \E f \in Fates : LoadScript(1, f)
    /\ UNCHANGED <<detectionMode, error, faceapiDefined, tensorflowLoaded,
                   effects>>
    /\ UNCHANGED unchangedSampling
    /\ UNCHANGED <<chatVars, sanVars, simVars>>

\* script.onload (line 44): the script ran, and may or may not have defined
\* window.faceapi
ScriptLoaded ==
    /\ initPc = "scriptPending" /\ fate = "ok"
    /\ initPc' = "delay"
    /\ \E defines \in BOOLEAN : faceapiDefined' = (faceapiDefined \/ defines)
    /\ UNCHANGED <<detectionMode, isLoading, error, urlIdx, modelIdx, fate, scripts,
                   faceApiLoaded, tensorflowLoaded, faceApiCalls, tensorFlowCalls,
                   effects>>
    /\ UNCHANGED unchangedSampling
    /\ UNCHANGED <<chatVars, sanVars, simVars>>

\* script.onerror (line 45), caught at line 73
ScriptFailed ==
    /\ initPc = "scriptPending" /\ fate = "fail"
    /\ \E f \in Fates : NextCdnUrl(f)
    /\ UNCHANGED <<detectionMode, isLoading, error, faceapiDefined, tensorflowLoaded,
                   faceApiCalls, effects>>
    /\ UNCHANGED unchangedSampling
    /\ UNCHANGED <<chatVars, sanVars, simVars>>

\* The 500 ms timer of line 53 fires; lines 55-66
DelayElapsed ==
    /\ initPc = "delay"
    /\ IF faceapiDefined
       THEN /\ \E a \in Fates, b \in Fates : fate' = PromiseAll(a, b)
            /\ modelIdx' = 1
            /\ initPc' = "modelsPending"
            /\ UNCHANGED <<urlIdx, scripts, faceApiLoaded, tensorFlowCalls>>
       ELSE \E f \in Fates : NextCdnUrl(f)
    /\ UNCHANGED <<detectionMode, isLoading, error, faceapiDefined, tensorflowLoaded,
                   faceApiCalls, effects>>
    /\ UNCHANGED unchangedSampling
    /\ UNCHANGED <<chatVars, sanVars, simVars>>

\* (mutant) the `return` of line 115 is missing: the fallback is tried as well
ModelsLoadedNoReturn ==
    /\ initPc = "modelsPending" /\ fate = "ok"
    /\ faceApiLoaded' = "true"
    /\ detectionMode' = "faceapi"
    /\ isLoading' = FALSE
    /\ effects' = IF mounted THEN RerunEffect(effects, "faceapi") ELSE effects
    /\ tensorFlowCalls' = tensorFlowCalls + 1
    /\ scripts' = scripts \cup {TfUrl}
    /\ initPc' = "tfPending"
    /\ \E f \in Fates : fate' = f
    /\ urlIdx' = 0 /\ modelIdx' = 0
    /\ UNCHANGED <<error, faceapiDefined, tensorflowLoaded, faceApiCalls>>
    /\ UNCHANGED unchangedSampling
    /\ UNCHANGED <<chatVars, sanVars, simVars>>

\* Both nets loaded: return true (line 67), then lines 111-115
ModelsLoaded ==
    /\ initPc = "modelsPending" /\ fate = "ok"
    /\ faceApiLoaded' = "true"
    /\ Commit("faceapi", error)
    /\ UNCHANGED <<faceapiDefined, scripts, tensorflowLoaded,
                   faceApiCalls, tensorFlowCalls>>
    /\ UNCHANGED unchangedSampling
    /\ UNCHANGED <<chatVars, sanVars, simVars>>

\* A net failed to load (lines 68-70): the next baseUrl, or the next cdn url
ModelsFailed ==
    /\ initPc = "modelsPending" /\ fate = "fail"
    /\ IF modelIdx < NumModelUrls
       THEN /\ \E a \in Fates, b \in Fates : fate' = PromiseAll(a, b)
            /\ modelIdx' = modelIdx + 1
            /\ UNCHANGED <<initPc, urlIdx, scripts, faceApiLoaded, tensorFlowCalls>>
       ELSE \E f \in Fates : NextCdnUrl(f)
    /\ UNCHANGED <<detectionMode, isLoading, error, faceapiDefined, tensorflowLoaded,
                   faceApiCalls, effects>>
    /\ UNCHANGED unchangedSampling
    /\ UNCHANGED <<chatVars, sanVars, simVars>>

\* tf script.onload: resolve(true) (lines 90-93), then lines 122-126
TensorFlowLoaded ==
    /\ initPc = "tfPending" /\ fate = "ok"
    /\ tensorflowLoaded' = "true"
    /\ Commit("tensorflow", error)
    /\ UNCHANGED <<faceapiDefined, scripts, faceApiLoaded,
                   faceApiCalls, tensorFlowCalls>>
    /\ UNCHANGED unchangedSampling
    /\ UNCHANGED <<chatVars, sanVars, simVars>>

\* tf script.onerror: resolve(false) (line 94), then lines 129-133
TensorFlowFailed ==
    /\ initPc = "tfPending" /\ fate = "fail"
    /\ tensorflowLoaded' = "false"
    /\ Commit(SimulationMode, SimulationError)
    /\ UNCHANGED <<faceapiDefined, scripts, faceApiLoaded,
                   faceApiCalls, tensorFlowCalls>>
    /\ UNCHANGED unchangedSampling
    /\ UNCHANGED <<chatVars, sanVars, simVars>>

unchangedCascade == <<detectionMode, isLoading, initPc, urlIdx, modelIdx, fate,
                      faceapiDefined, scripts, faceApiLoaded, tensorflowLoaded,
                      faceApiCalls, tensorFlowCalls>>

WebcamError == "Failed to access webcam. Please allow camera permissions."

\* getUserMedia resolved (lines 224-250): the closure's stream is set, and the
\* stream and the metadata handler are attached when the <video> is rendered
GetUserMediaResolved(k) ==
    /\ effects[k].gum = "pending"
    /\ effects' = [effects EXCEPT ![k].gum = "resolved", ![k].stream = "live"]
    /\ video' = IF VideoMounted(isLoading, error, isActive)
                THEN [src |-> k, handler |-> k, metaPending |-> TRUE]
                ELSE video
    /\ UNCHANGED <<isActive, error, currentEmotion, confidence, mounted,
                   sampleThrew, recovered, published>>
    /\ UNCHANGED unchangedCascade
    /\ UNCHANGED <<chatVars, sanVars, simVars>>

\* getUserMedia rejected (lines 251-254)
GetUserMediaRejected(k) ==
    /\ effects[k].gum = "pending"
    /\ effects' = [effects EXCEPT ![k].gum = "rejected"]
    /\ error' = WebcamError
    /\ isActive' = FALSE
    /\ UNCHANGED <<currentEmotion, confidence, mounted, video, sampleThrew, recovered, published>>
    /\ UNCHANGED unchangedCascade
    /\ UNCHANGED <<chatVars, sanVars, simVars>>

\* video.onloadedmetadata (lines 230-249), the handler of the run that set it last
LoadedMetadata ==
    /\ video.metaPending
    /\ video' = [video EXCEPT !.metaPending = FALSE]
    /\ isActive' = TRUE
    /\ effects' = [effects EXCEPT ![video.handler].interval =
                      IF effects[video.handler].mode \in {"faceapi", "tensorflow", "simulation"}
                      THEN "running" ELSE @]
    /\ UNCHANGED <<error, currentEmotion, confidence, mounted, sampleThrew, recovered, published>>
    /\ UNCHANGED unchangedCascade
    /\ UNCHANGED <<chatVars, sanVars, simVars>>

\* setCurrentEmotion(e); setConfidence(c); onEmotionDetected(e)
\* (lines 157-159, 201-203, 212-214)
Publish(e, c) ==
    /\ currentEmotion' = e
    /\ confidence' = c
    /\ published' = e

\* Math.random() drawn on a grid: r stands for r / RandomGrid, in [0, 1)
RandomGrid == 10
ConfGrid   == 1

\* detectEmotionsTensorFlow (lines 184-198): emotions, weights in tenths
tfEmotions == <<"happy", "sad", "angry", "surprised", "neutral", "fearful">>
tfWeights  == <<3, 1, 1, 2, 2, 1>>

RECURSIVE Cumulative(_)
Cumulative(i) == IF i = 0 THEN 0 ELSE Cumulative(i - 1) + tfWeights[i]

\* the first i with random <= cumulative, 'neutral' when there is none
WeightedPick(r) ==
    LET hits == {i \in 1..Len(tfEmotions) : r * 10 <= Cumulative(i) * RandomGrid}
    IN  IF hits = {} THEN "neutral"
        ELSE tfEmotions[CHOOSE i \in hits : \A j \in hits : i <= j]

\* detectEmotionsSimulation (lines 208-209): emotions[Math.floor(random * length)]
simEmotions == <<"happy", "sad", "angry", "surprised", "neutral", "fearful">>
UniformPick(r) == simEmotions[((r * Len(simEmotions)) \div RandomGrid) + 1]

\* Math.random() * span + base, in percent (lines 200, 210)
RandomConfidence(c, base, span) == base + (c * span) \div ConfGrid

\* One firing of the timer of effect run k (line 242): the detect function of the
\* detectionMode that run was started with
Tick(k) ==
    /\ effects[k].interval = "running"
    /\ CASE effects[k].mode = "faceapi" ->
              \* lines 141-146: return early, or start detectAllFaces
              /\ effects[k].inflight < MaxInFlight
              /\ effects' = IF VideoMounted(isLoading, error, isActive) /\ faceapiDefined
                            THEN [effects EXCEPT ![k].inflight = @ + 1]
                            ELSE effects
              /\ UNCHANGED <<currentEmotion, confidence, published>>
         [] effects[k].mode = "tensorflow" ->
              /\ \E r \in 0..(RandomGrid - 1), c \in 0..(ConfGrid - 1) :
                    Publish(WeightedPick(r), RandomConfidence(c, 70, 30))
              /\ UNCHANGED effects
         [] OTHER ->
              /\ \E r \in 0..(RandomGrid - 1), c \in 0..(ConfGrid - 1) :
                    Publish(UniformPick(r), RandomConfidence(c, 60, 40))
              /\ UNCHANGED effects
    /\ UNCHANGED <<isActive, error, mounted, video, sampleThrew, recovered>>
    /\ UNCHANGED unchangedCascade
    /\ UNCHANGED <<chatVars, sanVars, simVars>>

\* (mutant) the catch block resets the sample to 'neutral'
DetectionSettledResets(k) ==
    /\ effects[k].inflight > 0
    /\ effects' = [effects EXCEPT ![k].inflight = @ - 1]
    /\ \/ \* it throws: caught and logged (lines 176-178)
          /\ sampleThrew' = TRUE
          /\ recovered' = FALSE
          /\ Publish("neutral", 0)
       \/ \* detections.length = 0
          /\ UNCHANGED <<currentEmotion, confidence, published, sampleThrew, recovered>>
       \/ \* the strongest expression of the first face (lines 148-159)
          /\ \E maxExpression \in RawLabels, c \in 1..ConfGrid :
                Publish(MappedEmotion(maxExpression), (c * 100) \div ConfGrid)
          /\ recovered' = sampleThrew
          /\ UNCHANGED sampleThrew
    /\ UNCHANGED <<isActive, error, mounted, video>>
    /\ UNCHANGED unchangedCascade
    /\ UNCHANGED <<chatVars, sanVars, simVars>>

\* detectAllFaces(...).withFaceExpressions() settles (lines 144-178)
DetectionSettled(k) ==
    /\ effects[k].inflight > 0
    /\ effects' = [effects EXCEPT ![k].inflight = @ - 1]
    /\ \/ \* it throws: caught and logged (lines 176-178)
          /\ sampleThrew' = TRUE
          /\ recovered' = FALSE
          /\ UNCHANGED <<currentEmotion, confidence, published>>
       \/ \* detections.length = 0
          /\ UNCHANGED <<currentEmotion, confidence, published, sampleThrew, recovered>>
       \/ \* the strongest expression of the first face (lines 148-159)
          /\ \E maxExpression \in RawLabels, c \in 1..ConfGrid :
                Publish(MappedEmotion(maxExpression), (c * 100) \div ConfGrid)
          /\ recovered' = sampleThrew
          /\ UNCHANGED sampleThrew
    /\ UNCHANGED <<isActive, error, mounted, video>>
    /\ UNCHANGED unchangedCascade
    /\ UNCHANGED <<chatVars, sanVars, simVars>>

\* The parent passes another onEmotionDetected: the dependency list of line 269
\* changed, so the cleanup runs and the effect runs again
DependencyChanged ==
    /\ mounted
    /\ Len(effects) < MaxEffectRuns
    /\ effects' = RerunEffect(effects, detectionMode)
    /\ UNCHANGED <<isActive, error, currentEmotion, confidence, mounted, video,
                   sampleThrew, recovered, published>>
    /\ UNCHANGED unchangedCascade
    /\ UNCHANGED <<chatVars, sanVars, simVars>>

\* The component unmounts: the current run's cleanup (lines 261-268)
Unmount ==
    /\ mounted
    /\ mounted' = FALSE
    /\ effects' = [effects EXCEPT ![Len(effects)] = Cleanup(@)]
    /\ UNCHANGED <<isActive, error, currentEmotion, confidence, video,
                   sampleThrew, recovered, published>>
    /\ UNCHANGED unchangedCascade
    /\ UNCHANGED <<chatVars, sanVars, simVars>>

\* The steps of initializeDetection
CascadeStep ==
    \/ InitializeDetection
    \/ ScriptLoaded
    \/ ScriptFailed
    \/ DelayElapsed
    \/ ModelsLoaded
    \/ ModelsFailed
    \/ TensorFlowLoaded
    \/ TensorFlowFailed

CamNext ==
    \/ InitializeDetection
    \/ ScriptLoaded
    \/ ScriptFailed
    \/ DelayElapsed
    \/ ModelsLoaded
    \/ ModelsFailed
    \/ TensorFlowLoaded
    \/ TensorFlowFailed
    \/ \E k \in 1..Len(effects) : GetUserMediaResolved(k)
    \/ \E k \in 1..Len(effects) : GetUserMediaRejected(k)
    \/ LoadedMetadata
    \/ \E k \in 1..Len(effects) : Tick(k)
    \/ \E k \in 1..Len(effects) : DetectionSettled(k)
    \/ DependencyChanged
    \/ Unmount

-----------------------------------------------------------------------------
(* api.ts: the reply sanitizer.  Text that the code inspects character by    *)
(* character is a sequence of one-character strings; Str gives the string.  *)

RECURSIVE Str(_)
Str(chars) == IF chars = <<>> THEN "" ELSE chars[1] \o Str(Tail(chars))

OpenTag  == <<"<", "t", "h", "i", "n", "k", ">">>
CloseTag == <<"<", "/", "t", "h", "i", "n", "k", ">">>

\* the i flag of the regex: letters compare without case
Lower(c) ==
    CASE c = "T" -> "t" [] c = "H" -> "h" [] c = "I" -> "i"
      [] c = "N" -> "n" [] c = "K" -> "k" [] OTHER -> c

MatchesAt(s, i, tag) ==
    /\ i + Len(tag) - 1 <= Len(s)
    /\ \A j \in 1..Len(tag) : Lower(s[i + j - 1]) = tag[j]

\* (mutant) the g flag is missing: only the first block is removed
RECURSIVE StripFirstOnly(_, _)
StripFirstOnly(s, i) ==
    IF i > Len(s) THEN <<>>
    ELSE LET closes == {j \in (i + Len(OpenTag))..Len(s) : MatchesAt(s, j, CloseTag)}
         IN  IF MatchesAt(s, i, OpenTag) /\ closes # {}
             THEN SubSeq(s, (CHOOSE j \in closes : \A m \in closes : j <= m)
                               + Len(CloseTag), Len(s))
             ELSE <<s[i]>> \o StripFirstOnly(s, i + 1)

\* reply.replace(/<think>[\s\S]*?<\/think>/gi, '')  (line 111): scanning from the
\* left, an opening tag with a closing tag after it is removed up to the first
\* such closing tag (*? is lazy, [\s\S] matches newlines too), and the scan goes
\* on behind the match; text that is removed is not scanned again.
RECURSIVE StripFrom(_, _)
StripFrom(s, i) ==
    IF i > Len(s) THEN <<>>
    ELSE LET closes == {j \in (i + Len(OpenTag))..Len(s) : MatchesAt(s, j, CloseTag)}
         IN  IF MatchesAt(s, i, OpenTag) /\ closes # {}
             THEN StripFrom(s, (CHOOSE j \in closes : \A m \in closes : j <= m)
                               + Len(CloseTag))
             ELSE <<s[i]>> \o StripFrom(s, i + 1)

WhiteSpace == {" ", "\n", "\t"}

\* String.prototype.trim
RECURSIVE TrimStart(_)
TrimStart(s) ==
    IF s # <<>> /\ s[1] \in WhiteSpace THEN TrimStart(Tail(s)) ELSE s
RECURSIVE TrimEnd(_)
TrimEnd(s) ==
    IF s # <<>> /\ s[Len(s)] \in WhiteSpace THEN TrimEnd(SubSeq(s, 1, Len(s) - 1)) ELSE s
Trim(s) == TrimEnd(TrimStart(s))

\* line 111
Sanitize(reply) == Trim(StripFrom(reply, 1))

-----------------------------------------------------------------------------
(* api.ts: getAIBotReply (lines 60-117) and ChatInterface (lines 171-321) *)

NoEmotion == "undefined"

\* lines 172-181 (the text ends in an emoji, left out here)
SeedText == "Hi there! I'm your Mood Spoiler bot. I'll detect your emotions and give you the OPPOSITE vibes!"
SeedMessage == [id |-> 0, text |-> SeedText, sender |-> "bot", emotion |-> NoEmotion]

NotOkText  == "Sorry, the mood AI is having trouble right now."   \* line 101
NoReplyText == "Couldn't get bot response!"                        \* lines 108, 115
OopsText   == "Oops! The mood spoiling AI is having a bad day. Try again later."  \* line 231

\* What the user may type
Blank      == <<" ">>
UserInputs == {<<"h", "i">>, Blank}

\* Strongest expressions of the samples behind the detectedEmotion prop: two keys
\* of emotionMapping and a label outside it
RawSample == {"neutral", "happy", "contempt"}

\* The parent hands the label published through onEmotionDetected on to
\* ChatInterface as its detectedEmotion prop, as it is.
ParentPasses(label) == label

PropEmotions == {ParentPasses(MappedEmotion(raw)) : raw \in RawSample}

\* What the endpoint may do with a request.  Contents it may send back:
ThinkBlock == OpenTag \o <<"x">> \o CloseTag
ReplyTexts == { <<"o", "k">>,
                ThinkBlock \o <<"o", "k">>,
                ThinkBlock \o <<" ">> }
FailureKinds == {"fetchRejects", "notOk", "notOkBodyRejects", "badJson",
                 "noContent", "emptyContent", "nonStringContent"}
Outcomes == [kind : FailureKinds, content : {<<>>}]
            \cup [kind : {"content"}, content : ReplyTexts]

\* lines 64-83: the system prompt, which varies with detectedEmotion only, then
\* the history with 'bot' as 'assistant'
SystemPrompt(emotion) == [role |-> "system", content |-> <<"systemPrompt", emotion>>]

\* (mutant) the roles of the history are sent as they are
ApiMessagesRawRoles(messagesHistory, emotion) ==
    <<SystemPrompt(emotion)>> \o
    [i \in 1..Len(messagesHistory) |->
        [role    |-> messagesHistory[i].role,
         content |-> messagesHistory[i].content]]

ApiMessages(messagesHistory, emotion) ==
    <<SystemPrompt(emotion)>> \o
    [i \in 1..Len(messagesHistory) |->
        [role    |-> IF messagesHistory[i].role = "bot" THEN "assistant" ELSE "user",
         content |-> messagesHistory[i].content]]

\* (mutant) a non-2xx status returns the body of the response as the reply
GetAIBotReplyReturnsErrorText(outcome) ==
    CASE outcome.kind = "notOk"   -> [settles |-> "resolved", value |-> "Internal Server Error"]
      [] outcome.kind = "content" -> [settles |-> "resolved", value |-> Str(Sanitize(outcome.content))]
      [] OTHER                    -> [settles |-> "resolved", value |-> NoReplyText]

\* (mutant) the catch block of line 113 throws the error on
GetAIBotReplyRethrows(outcome) ==
    CASE outcome.kind = "fetchRejects"     -> [settles |-> "rejected", value |-> "TypeError"]
      [] outcome.kind = "notOk"            -> [settles |-> "resolved", value |-> NotOkText]
      [] outcome.kind = "notOkBodyRejects" -> [settles |-> "rejected", value |-> "TypeError"]
      [] outcome.kind = "badJson"          -> [settles |-> "rejected", value |-> "SyntaxError"]
      [] outcome.kind = "noContent"        -> [settles |-> "resolved", value |-> NoReplyText]
      [] outcome.kind = "emptyContent"     -> [settles |-> "resolved", value |-> NoReplyText]
      [] outcome.kind = "nonStringContent" -> [settles |-> "rejected", value |-> "TypeError"]
      [] OTHER -> [settles |-> "resolved", value |-> Str(Sanitize(outcome.content))]

\* lines 85-116: what the promise of getAIBotReply settles with
GetAIBotReply(outcome) ==
    CASE outcome.kind = "fetchRejects"     -> [settles |-> "resolved", value |-> NoReplyText]
      [] outcome.kind = "notOk"            -> [settles |-> "resolved", value |-> NotOkText]
      [] outcome.kind = "notOkBodyRejects" -> [settles |-> "resolved", value |-> NoReplyText]
      [] outcome.kind = "badJson"          -> [settles |-> "resolved", value |-> NoReplyText]
      [] outcome.kind = "noContent"        -> [settles |-> "resolved", value |-> NoReplyText]
      [] outcome.kind = "emptyContent"     -> [settles |-> "resolved", value |-> NoReplyText]
      \* reply.replace is not a function: thrown inside the try, caught at line 113
      [] outcome.kind = "nonStringContent" -> [settles |-> "resolved", value |-> NoReplyText]
      [] OTHER -> [settles |-> "resolved", value |-> Str(Sanitize(outcome.content))]

\* lines 191-195
getHistoryForAPI(msgs) ==
    [i \in 1..Len(msgs) |-> [role |-> msgs[i].sender, content |-> msgs[i].text]]

\* (mutant) the new message is put in front
PrependMessage(prev, m) == <<m>> \o prev

\* setMessages(prev => [...prev, m])  (lines 208, 227, 235)
AppendMessage(prev, m) == Append(prev, m)

\* (mutant) the emotion is read when the reply arrives, not when the turn was sent
BotResponseCurrentEmotion(id, result, emotion) ==
    IF result.settles = "resolved"
    THEN [id |-> id, text |-> result.value, sender |-> "bot", emotion |-> detectedEmotion]
    ELSE [id |-> id, text |-> OopsText, sender |-> "bot", emotion |-> NoEmotion]

\* lines 219-225, and 229-234 when the awaited promise rejects
BotResponse(id, result, emotion) ==
    IF result.settles = "resolved"
    THEN [id |-> id, text |-> result.value, sender |-> "bot", emotion |-> emotion]
    ELSE [id |-> id, text |-> OopsText, sender |-> "bot", emotion |-> NoEmotion]

\* onChange of the input (line 304)
TypeInput(t) ==
    /\ inputText # t
    /\ inputText' = t
    /\ UNCHANGED <<messages, isTyping, detectedEmotion, requests, submitted,
                   submittedEmotion, settled, overlapped, ignored>>
    /\ UNCHANGED <<camVars, sanVars, simVars>>

\* The parent renders ChatInterface with another detectedEmotion
EmotionChanged(e) ==
    /\ detectedEmotion # e
    /\ detectedEmotion' = e
    /\ UNCHANGED <<messages, inputText, isTyping, requests, submitted,
                   submittedEmotion, settled, overlapped, ignored>>
    /\ UNCHANGED <<camVars, sanVars, simVars>>

\* (mutant) the guard of line 198 is missing
HandleSendMessageNoGuard ==
    /\ Len(submitted) < MaxTurns
    /\ messages' = AppendMessage(messages,
           [id |-> Len(messages), text |-> Str(inputText),
            sender |-> "user", emotion |-> NoEmotion])
    /\ inputText' = <<>>
    /\ isTyping' = TRUE
    /\ requests' = requests \cup
           {[ turn    |-> Len(submitted) + 1,
              payload |-> ApiMessages(
                             getHistoryForAPI(messages)
                                \o <<[role |-> "user", content |-> Str(inputText)]>>,
                             detectedEmotion),
              emotion |-> detectedEmotion ]}
    /\ submitted' = Append(submitted, Str(inputText))
    /\ submittedEmotion' = Append(submittedEmotion, detectedEmotion)
    /\ overlapped' = (overlapped \/ requests # {})
    /\ UNCHANGED <<detectedEmotion, settled, ignored>>
    /\ UNCHANGED <<camVars, sanVars, simVars>>

\* handleSendMessage up to its await (lines 197-217); Enter or the send button
HandleSendMessage ==
    IF Trim(inputText) = <<>>
    THEN /\ ignored' = TRUE                                       \* line 198
         /\ UNCHANGED <<messages, inputText, isTyping, detectedEmotion, requests,
                        submitted, submittedEmotion, settled, overlapped>>
         /\ UNCHANGED <<camVars, sanVars, simVars>>
    ELSE /\ Len(submitted) < MaxTurns
         /\ messages' = AppendMessage(messages,
                [id |-> Len(messages), text |-> Str(inputText),
                 sender |-> "user", emotion |-> NoEmotion])
         /\ inputText' = <<>>
         /\ isTyping' = TRUE
         /\ requests' = requests \cup
                {[ turn    |-> Len(submitted) + 1,
                   payload |-> ApiMessages(
                                  getHistoryForAPI(messages)
                                     \o <<[role |-> "user", content |-> Str(inputText)]>>,
                                  detectedEmotion),
                   emotion |-> detectedEmotion ]}
         /\ submitted' = Append(submitted, Str(inputText))
         /\ submittedEmotion' = Append(submittedEmotion, detectedEmotion)
         /\ overlapped' = (overlapped \/ requests # {})
         /\ UNCHANGED <<detectedEmotion, settled, ignored>>
         /\ UNCHANGED <<camVars, sanVars, simVars>>

\* (mutant) a failed turn takes its user message back out of the history
ReplySettledRollsBack(r, outcome) ==
    /\ r \in requests
    /\ requests' = requests \ {r}
    /\ messages' =
          IF outcome.kind \in FailureKinds
          THEN SelectSeq(messages, LAMBDA m : m.sender = "bot")
          ELSE AppendMessage(messages,
                  BotResponse(Len(messages), GetAIBotReply(outcome), r.emotion))
    /\ isTyping' = FALSE
    /\ settled' = Append(settled, [turn   |-> r.turn,
                                   failed |-> outcome.kind \in FailureKinds,
                                   prompt |-> r.payload[1],
                                   botId  |-> Len(messages)])
    /\ UNCHANGED <<inputText, detectedEmotion, submitted, submittedEmotion, overlapped,
                   ignored>>
    /\ UNCHANGED <<camVars, sanVars, simVars>>

\* (mutant) a failed request appends no bot message
ReplySettledSilentFailure(r, outcome) ==
    /\ r \in requests
    /\ requests' = requests \ {r}
    /\ messages' =
          IF outcome.kind \in FailureKinds
          THEN messages
          ELSE AppendMessage(messages,
                  BotResponse(Len(messages), GetAIBotReply(outcome), r.emotion))
    /\ isTyping' = FALSE
    /\ settled' = Append(settled, [turn   |-> r.turn,
                                   failed |-> outcome.kind \in FailureKinds,
                                   prompt |-> r.payload[1],
                                   botId  |-> Len(messages)])
    /\ UNCHANGED <<inputText, detectedEmotion, submitted, submittedEmotion, overlapped,
                   ignored>>
    /\ UNCHANGED <<camVars, sanVars, simVars>>

\* The request of one call settles and the call resumes (lines 219-238), with the
\* detectedEmotion of the render it was made in
ReplySettled(r, outcome) ==
    /\ r \in requests
    /\ requests' = requests \ {r}
    /\ messages' = AppendMessage(messages,
                      BotResponse(Len(messages), GetAIBotReply(outcome), r.emotion))
    /\ isTyping' = FALSE
    /\ settled' = Append(settled, [turn   |-> r.turn,
                                   failed |-> outcome.kind \in FailureKinds,
                                   prompt |-> r.payload[1],
                                   botId  |-> Len(messages)])
    /\ UNCHANGED <<inputText, detectedEmotion, submitted, submittedEmotion, overlapped,
                   ignored>>
    /\ UNCHANGED <<camVars, sanVars, simVars>>

ChatNext ==
    \/ \E t \in UserInputs : TypeInput(t)
    \/ \E e \in PropEmotions : EmotionChanged(e)
    \/ HandleSendMessage
    \/ \E r \in requests, outcome \in Outcomes : ReplySettled(r, outcome)

-----------------------------------------------------------------------------
(* The sanitizer on its own: an input, sanitized once, and once more *)

MaxFragments == 5

\* Reasoning blocks: lower case with a body of two lines, and mixed case with an
\* empty body
Blocks == { OpenTag \o <<"x", "\n", "y">> \o CloseTag,
            <<"<", "T", "h", "I", "N", "k", ">">> \o <<"<", "/", "t", "H", "i", "n", "K", ">">> }

\* Text without any tag in it
PlainPieces == { <<"a">>, <<" ">> }

\* Pieces of tags, which may end up next to each other
TagPieces == { OpenTag, CloseTag, <<"<", "t", "h", "i">>, <<"n", "k", ">">> }

Fragments == Blocks \cup PlainPieces \cup TagPieces

RECURSIVE Concat(_)
Concat(fs) == IF fs = <<>> THEN <<>> ELSE fs[1] \o Concat(Tail(fs))

\* "<think>anything\nmultiline</think>Actual reply"
ExampleParts == << OpenTag \o <<"a", "n", "y", "t", "h", "i", "n", "g", "\n", "m", "u", "l", "t", "i", "l", "i", "n", "e">> \o CloseTag,
                   <<"A", "c", "t", "u", "a", "l", " ", "r", "e", "p", "l", "y">> >>

SanitizeParts ==
    UNION { [1..n -> Fragments] : n \in 0..MaxFragments } \cup {ExampleParts}

SanitizeInputs == { Concat(fs) : fs \in SanitizeParts }

Unset == <<"unset">>

SanitizeOnce ==
    /\ sIn # Unset /\ sOnce = Unset
    /\ sOnce' = Sanitize(sIn)
    /\ UNCHANGED <<sParts, sIn, sTwice, camVars, chatVars, simVars>>

SanitizeTwice ==
    /\ sOnce # Unset /\ sTwice = Unset
    /\ sTwice' = Sanitize(sOnce)
    /\ UNCHANGED <<sParts, sIn, sOnce, camVars, chatVars, simVars>>

SanNext == SanitizeOnce \/ SanitizeTwice

-----------------------------------------------------------------------------
(* The simulation sampler on its own: detectEmotionsSimulation called
   MaxSamples times, whatever Math.random() returns *)

MaxSamples == 3

\* detectEmotionsSimulation (lines 207-215)
SimulationSample ==
    /\ Len(draws) < MaxSamples
    /\ \E r \in 0..(RandomGrid - 1), c \in 0..(ConfGrid - 1) :
          /\ draws' = Append(draws, r)
          /\ samples' = Append(samples, [emotion    |-> UniformPick(r),
                                         confidence |-> RandomConfidence(c, 60, 40)])
    /\ UNCHANGED <<camVars, chatVars, sanVars>>

SimNext == SimulationSample

-----------------------------------------------------------------------------
(* Specifications *)

CamInit ==
    /\ detectionMode = "loading"
    /\ isLoading = TRUE
    /\ isActive = FALSE
    /\ error = NoError
    /\ currentEmotion = "neutral"
    /\ confidence = 0
    /\ initPc = "start"
    /\ urlIdx = 0
    /\ modelIdx = 0
    /\ fate = "ok"
    /\ faceapiDefined = FALSE
    /\ scripts = {}
    /\ faceApiLoaded = "unset"
    /\ tensorflowLoaded = "unset"
    /\ faceApiCalls = 0
    /\ tensorFlowCalls = 0
    /\ mounted = TRUE
    /\ effects = <<NewEffect("loading")>>
    /\ video = [src |-> 0, handler |-> 0, metaPending |-> FALSE]
    /\ sampleThrew = FALSE
    /\ recovered = FALSE
    /\ published = NoEmotion

ChatInit ==
    /\ messages = <<SeedMessage>>
    /\ inputText = <<>>
    /\ isTyping = FALSE
    /\ detectedEmotion = "neutral"
    /\ requests = {}
    /\ submitted = <<>>
    /\ submittedEmotion = <<>>
    /\ settled = <<>>
    /\ overlapped = FALSE
    /\ ignored = FALSE

SanIdle == sParts = <<>> /\ sIn = Unset /\ sOnce = Unset /\ sTwice = Unset
SimIdle == draws = <<>> /\ samples = <<>>

Init == CamInit /\ ChatInit /\ SanIdle /\ SimIdle
Next == CamNext \/ ChatNext
Spec == Init /\ [][Next]_vars

\* WebcamFeed alone
SpecCam == Init /\ [][CamNext]_vars

\* ChatInterface alone, its prop changing as the parent pleases
SpecChat == Init /\ [][ChatNext]_vars

\* The sanitizer applied to each bounded input
SanInit ==
    /\ CamInit
    /\ ChatInit
    /\ sParts \in SanitizeParts
    /\ sIn = Concat(sParts) /\ sOnce = Unset /\ sTwice = Unset
    /\ SimIdle
SpecSanitize == SanInit /\ [][SanNext]_vars

\* The simulation sampler called again and again
SpecSimulation == Init /\ [][SimNext]_vars

-----------------------------------------------------------------------------
(* Properties of the detection cascade (WebcamFeed.tsx) *)

Backends == {"faceapi", "tensorflow", "simulation"}

\* How far initializeDetection has come: every step of it moves forward
PerUrl == 2 + NumModelUrls
CascadeRank ==
    CASE initPc = "start"         -> 0
      [] initPc = "scriptPending" -> (urlIdx - 1) * PerUrl + 1
      [] initPc = "delay"         -> (urlIdx - 1) * PerUrl + 2
      [] initPc = "modelsPending" -> (urlIdx - 1) * PerUrl + 2 + modelIdx
      [] initPc = "tfPending"     -> NumCdnUrls * PerUrl + 1
      [] OTHER                    -> NumCdnUrls * PerUrl + 2

CascadeCommitted ==
    /\ (initPc = "done") <=> (detectionMode \in Backends)
    /\ (initPc # "done") <=> (detectionMode = "loading")
    /\ (initPc = "done" /\ faceApiLoaded = "false" /\ tensorflowLoaded = "false")
          => detectionMode = "simulation"
    \* a probe that has settled lets initializeDetection go on
    /\ (initPc # "done" /\ fate # "never") => ENABLED CascadeStep

\* C2 (cascade totality): whenever every awaited probe settles (with success or
\* failure), initializeDetection goes on, each of its steps moves it forward, and
\* once it has returned detectionMode is one of faceapi, tensorflow, simulation,
\* never 'loading'; it is simulation when both probes failed.
CascadeTotality ==
    /\ []CascadeCommitted
    /\ [][<<initPc, urlIdx, modelIdx>>' # <<initPc, urlIdx, modelIdx>>
            => CascadeRank' > CascadeRank]_vars

BothProbesFailed ==
    /\ initPc = "done"
    /\ faceApiLoaded = "false" /\ tensorflowLoaded = "false"
    /\ detectionMode = "simulation"

\* C3 (cascade priority): the probes run in the order primary, secondary,
\* simulated: a successful loadFaceAPI commits faceapi and loadTensorFlow is never
\* called; loadTensorFlow is called only after loadFaceAPI returned false;
\* tensorflow is committed only on primary failure and secondary success, and
\* simulation only after both probes ran and failed.
CascadePriority ==
    /\ faceApiLoaded = "true" => detectionMode = "faceapi" /\ tensorFlowCalls = 0
    /\ tensorFlowCalls > 0 => faceApiCalls = 1 /\ faceApiLoaded = "false"
    /\ detectionMode = "faceapi" => faceApiLoaded = "true" /\ tensorFlowCalls = 0
    /\ detectionMode = "tensorflow" => faceApiLoaded = "false" /\ tensorflowLoaded = "true"
    /\ detectionMode = "simulation" =>
          /\ faceApiLoaded = "false" /\ tensorflowLoaded = "false"
          /\ tensorFlowCalls = 1

SecondaryAfterPrimaryFailed ==
    /\ detectionMode = "tensorflow"
    /\ faceApiLoaded = "false" /\ tensorflowLoaded = "true"
    /\ faceApiCalls = 1 /\ tensorFlowCalls = 1

\* C4 (one-shot commitment): once detectionMode has left 'loading', no step
\* changes it and no step calls loadFaceAPI or loadTensorFlow, also after a
\* sampling call has thrown.
OneShotCommitment ==
    [][detectionMode # "loading" =>
          /\ detectionMode' = detectionMode
          /\ faceApiCalls' = faceApiCalls
          /\ tensorFlowCalls' = tensorFlowCalls]_vars

SamplingThrewAfterCommit ==
    /\ detectionMode = "faceapi"
    /\ sampleThrew
    /\ faceApiCalls = 1 /\ tensorFlowCalls = 0

\* C5 (bounded initialization): a probe that hangs is given up after a bounded
\* wait, so initializeDetection is never stuck before it has committed: as long
\* as detectionMode is 'loading', some step of the cascade can be taken.
BoundedInitialization ==
    detectionMode # "loading" \/ ENABLED CascadeStep

-----------------------------------------------------------------------------
(* Properties of the conversation (api.ts) *)

FallbackTexts == {NotOkText, NoReplyText, OopsText}

\* C1 (exclusivity): at most one reply request is outstanding at any time.
Exclusivity == Cardinality(requests) <= 1

AllSucceeded == \A i \in 1..Len(settled) : ~settled[i].failed

\* C6 (conversation ordering): when the turns were submitted one after another,
\* each after the previous reply had settled, and every reply succeeded, the
\* history is the seed greeting followed by one (user, bot) pair per turn in
\* submission order: 2N+1 messages once the N-th reply has settled.
ConversationOrdering ==
    (~overlapped /\ AllSucceeded) =>
        /\ messages[1] = SeedMessage
        /\ Len(messages) = 1 + Len(submitted) + Len(settled)
        /\ requests = {} => Len(messages) = 2 * Len(submitted) + 1
        /\ \A n \in 1..Len(submitted) :
              /\ messages[2 * n].sender = "user"
              /\ messages[2 * n].text = submitted[n]
        /\ \A n \in 1..Len(settled) :
              /\ settled[n].turn = n
              /\ messages[2 * n + 1].sender = "bot"
              /\ messages[2 * n + 1].id = settled[n].botId

TwoTurnsSucceeded ==
    /\ ~overlapped /\ AllSucceeded /\ requests = {}
    /\ Len(submitted) = 2 /\ Len(settled) = 2
    /\ Len(messages) = 5

\* C7 (failure does not duplicate state): the step in which a request settles
\* with a failure (fetch rejects, non-2xx status, unreadable body, absent, empty
\* or non-string content) appends exactly one bot message, with a fallback text,
\* behind the user message of its turn, leaves the messages before it as they
\* were, and sets isTyping to false.
FailureAppendsOneFallback ==
    [][(/\ Len(settled') = Len(settled) + 1
        /\ settled'[Len(settled')].failed)
       => /\ Len(messages') = Len(messages) + 1
          /\ SubSeq(messages', 1, Len(messages)) = messages
          /\ messages'[Len(messages')].sender = "bot"
          /\ messages'[Len(messages')].text \in FallbackTexts
          /\ Cardinality({i \in 1..Len(messages) : messages[i].sender = "user"})
                >= settled'[Len(settled')].turn
          /\ isTyping' = FALSE]_vars

FailureSettled ==
    /\ settled # <<>>
    /\ settled[Len(settled)].failed
    /\ messages[Len(messages)].sender = "bot"
    /\ messages[Len(messages)].text \in FallbackTexts
    /\ ~isTyping

\* the bot message a settled request appended (ids count the appends)
BotMessageOf(s) == messages[s.botId + 1]

\* C8: the bot message appended for a failed reply has a fallback text and no
\* attached emotion, and a bot message has an attached emotion only when its
\* reply succeeded.
FailureHasNoEmotion ==
    \A i \in 1..Len(settled) :
        /\ settled[i].failed =>
              /\ BotMessageOf(settled[i]).text \in FallbackTexts
              /\ BotMessageOf(settled[i]).emotion = NoEmotion
        /\ BotMessageOf(settled[i]).emotion # NoEmotion => ~settled[i].failed

\* C9: no bot message with an empty text is ever in the history (a reply that is
\* empty after sanitization takes the fallback path).
NoEmptyBotMessage ==
    \A i \in 1..Len(messages) :
        messages[i].sender = "bot" => messages[i].text # ""

\* C10 (sanitization idempotence): sanitizing the sanitized text changes nothing.
SanitizeIdempotent ==
    sTwice # Unset => sTwice = sOnce

-----------------------------------------------------------------------------
(* Properties of the sanitizer and of the prompt (api.ts) *)

\* an input made of plain text and whole reasoning blocks only
Interleaved(parts) ==
    /\ \A i \in 1..Len(parts) : parts[i] \in Blocks \cup PlainPieces
    /\ \E i \in 1..Len(parts) : parts[i] \in Blocks

IsPlain(piece) == piece \in PlainPieces

\* C11 (sanitization completeness): for a reply made of plain text interleaved
\* with one or more reasoning blocks (tags in any letter case, bodies with
\* newlines), the sanitized text is the plain text outside the blocks, every
\* block removed, trimmed; "<think>anything\nmultiline</think>Actual reply"
\* sanitizes to "Actual reply".
SanitizeComplete ==
    sOnce # Unset =>
        /\ Interleaved(sParts) => sOnce = Trim(Concat(SelectSeq(sParts, IsPlain)))
        /\ sParts = ExampleParts => sOnce = ExampleParts[2]

SeveralBlocksRemoved ==
    /\ sOnce = <<"a", " ", "a">>
    /\ Len(sParts) = 5
    /\ sParts[1] \in Blocks /\ sParts[3] \in Blocks /\ sParts[1] # sParts[3]
    /\ sParts[2] = <<"a">> /\ sParts[4] = <<" ">> /\ sParts[5] = <<"a">>

\* the position in the history of the user message of turn t
UserIndex(t) ==
    CHOOSE i \in 1..Len(messages) :
        /\ messages[i].sender = "user"
        /\ Cardinality({j \in 1..i : messages[j].sender = "user"}) = t

\* C12: the emotion attached to the bot message of a successful reply is the
\* detectedEmotion that was current when that turn was submitted, and it is the
\* emotion of that turn's prompt, whatever detectedEmotion has become since.
EmotionOfSubmission ==
    /\ \A r \in requests :
          /\ r.emotion = submittedEmotion[r.turn]
          /\ r.payload[1] = SystemPrompt(submittedEmotion[r.turn])
    /\ \A i \in 1..Len(settled) :
          ~settled[i].failed =>
              /\ BotMessageOf(settled[i]).emotion = submittedEmotion[settled[i].turn]
              /\ settled[i].prompt = SystemPrompt(submittedEmotion[settled[i].turn])

\* turn 1 was sent with 'happy', the emotion became 'contempt' and turn 2 was sent
\* while turn 1 was in flight; then the reply of turn 1 arrived
EmotionChangedInFlight ==
    /\ overlapped
    /\ Len(submitted) = 2 /\ Len(settled) = 1
    /\ settled[1].turn = 1 /\ ~settled[1].failed
    /\ submittedEmotion = <<"happy", "contempt">>
    /\ detectedEmotion = "contempt"
    /\ BotMessageOf(settled[1]).emotion = "happy"

\* C13: the payload of every request is the system prompt made from the
\* detectedEmotion of the submission alone, followed by the whole history as it
\* was at the submission, in order, 'bot' sent as 'assistant' and 'user' as
\* 'user', and it ends with the submitted user message, which is in it once.
PayloadOfSubmission ==
    \A r \in requests :
        LET u == UserIndex(r.turn) IN
        /\ Len(r.payload) = u + 1
        /\ r.payload[1] = SystemPrompt(submittedEmotion[r.turn])
        /\ \A i \in 1..u :
              /\ r.payload[i + 1].content = messages[i].text
              /\ r.payload[i + 1].role =
                    (IF messages[i].sender = "bot" THEN "assistant" ELSE "user")
        /\ r.payload[u + 1] = [role |-> "user", content |-> submitted[r.turn]]
        /\ DOMAIN r.payload[u + 1] = {"role", "content"}

\* the second turn in flight, its prompt made for another emotion than the one
\* attached to the first bot reply
SecondTurnPayload ==
    \E r \in requests :
        /\ r.turn = 2 /\ ~overlapped
        /\ Len(r.payload) = 5
        /\ r.payload[2].role = "assistant" /\ r.payload[4].role = "assistant"
        /\ messages[3].emotion = "happy"
        /\ r.payload[1] = SystemPrompt("contempt")

UserMessages == SelectSeq(messages, LAMBDA m : m.sender = "user")
IsPrefix(s, t) == Len(s) <= Len(t) /\ \A i \in 1..Len(s) : t[i] = s[i]

UserMessagesKept ==
    /\ Len(UserMessages) = Len(submitted)
    /\ \A t \in 1..Len(submitted) : UserMessages[t].text = submitted[t]
    /\ \A r \in requests : messages[UserIndex(r.turn)].text = submitted[r.turn]
    /\ \A i \in 1..Len(settled) :
          /\ BotMessageOf(settled[i]).sender = "bot"
          /\ settled[i].botId + 1 > UserIndex(settled[i].turn)

\* C14: the user message is in the history from the submission on, whatever
\* becomes of the request: while the request is in flight and after it has
\* settled, failed or not; no step removes or moves a message of the history;
\* the bot message of a turn stands after the user message of that turn.
UserMessageAppendedFirst ==
    /\ []UserMessagesKept
    /\ [][IsPrefix(messages, messages')]_vars

\* a turn whose request failed: its user message is still where it was appended
UserMessageSurvivesFailure ==
    /\ Len(settled) = 1 /\ settled[1].failed
    /\ Len(messages) = 3
    /\ messages[2] = [id |-> 1, text |-> submitted[1], sender |-> "user",
                      emotion |-> NoEmotion]
    /\ messages[3].sender = "bot"

\* C15: isTyping is true as long as a request is outstanding; it goes back to
\* false only when the request of the turn settles.
ComposingWhileOutstanding == requests # {} => isTyping

\* C16: when the cleanup of a run of the webcam effect has run, the stream that
\* run acquired is not live.
StreamReleased ==
    \A k \in 1..Len(effects) : effects[k].cleaned => effects[k].stream # "live"

\* C17: when the cleanup of a run of the webcam effect has run, the interval
\* that run created is not running.
IntervalCleared ==
    \A k \in 1..Len(effects) : effects[k].cleaned => effects[k].interval # "running"

\* a detectAllFaces call of run k settles by throwing (or finds no face after
\* one that threw)
ThrowStep(k) ==
    /\ effects'[k].inflight < effects[k].inflight
    /\ sampleThrew' /\ ~recovered'

\* C18: a sampling call that throws publishes nothing: currentEmotion,
\* confidence and the published emotion stay what they were, no error is
\* shown, and the interval of the run stays as it was, so that it goes on
\* firing.
ThrowSwallowed ==
    [][\A k \in 1..Len(effects) :
          ThrowStep(k) =>
              /\ UNCHANGED <<currentEmotion, confidence, published>>
              /\ UNCHANGED <<error, isActive, video>>
              /\ effects'[k].interval = effects[k].interval]_vars

\* a sampling call threw, and a later one of a running interval has published
PublishedAfterThrow ==
    /\ sampleThrew /\ recovered
    /\ published = "happy" /\ currentEmotion = "happy"
    /\ \E k \in 1..Len(effects) :
          effects[k].interval = "running" /\ ~effects[k].cleaned

\* C19: a detectAllFaces call that is in flight when the cleanup clears the
\* interval of its run publishes nothing when it settles.
NoPublishAfterCleanup ==
    [][\A k \in 1..Len(effects) :
          ( /\ effects[k].cleaned /\ effects[k].interval = "cleared"
            /\ effects'[k].inflight < effects[k].inflight )
          => UNCHANGED <<currentEmotion, confidence, published>>]_vars

\* C20: the emotion in the system prompt of every request is one of the seven
\* labels of emotionMapping, or 'unknown'.
PromptEmotionCanonical ==
    \A r \in requests :
        \E e \in EmotionLabel \cup {"unknown"} : r.payload[1] = SystemPrompt(e)

\* how many points of the Math.random() grid make the simulation publish e
SimWeight(e) == Cardinality({r \in 0..(RandomGrid - 1) : UniformPick(r) = e})

\* C21: the simulation sampler can publish each of the seven labels of
\* emotionMapping, and 'happy' and 'neutral' each are picked for more values of
\* Math.random() than any other label.
SimulatorSkewed ==
    samples # <<>> =>
        /\ \A e \in EmotionLabel : SimWeight(e) > 0
        /\ \A e \in EmotionLabel \ {"happy", "neutral"} :
              /\ SimWeight("happy") > SimWeight(e)
              /\ SimWeight("neutral") > SimWeight(e)

\* C22: a call of handleSendMessage with an empty or blank inputText changes
\* neither the history nor isTyping nor inputText and issues no request; isTyping
\* becomes true, a request is issued and a user message is appended only in a
\* step that starts with a non-blank inputText.
BlankSubmitIgnored ==
    [][ /\ (HandleSendMessage /\ Trim(inputText) = <<>>) =>
              UNCHANGED <<messages, isTyping, inputText, requests, submitted>>
        /\ (~isTyping /\ isTyping') => Trim(inputText) # <<>>
        /\ ~(requests' \subseteq requests) => Trim(inputText) # <<>>
        /\ Len(submitted') > Len(submitted) => Trim(inputText) # <<>> ]_vars

\* handleSendMessage was called on a blank input and on nothing else
BlankSubmitted ==
    /\ ignored
    /\ inputText = Blank
    /\ messages = <<SeedMessage>>
    /\ ~isTyping /\ requests = {} /\ submitted = <<>>

\* C23: getAIBotReply resolves to a string whatever the fetch does; no bot
\* message of a turn is the 'Oops!' message of the catch branch of
\* handleSendMessage, and each one carries the emotion of the success branch.
NeverRejects ==
    /\ \A o \in Outcomes :
          /\ GetAIBotReply(o).settles = "resolved"
          /\ GetAIBotReply(o).value \in STRING
    /\ \A i \in 1..Len(settled) :
          /\ BotMessageOf(settled[i]).text # OopsText
          /\ BotMessageOf(settled[i]).emotion = submittedEmotion[settled[i].turn]
    /\ \A i \in 2..Len(messages) : messages[i].text # OopsText

\* two requests have failed, one in the catch block of getAIBotReply and one on
\* a non-2xx status: both bot messages carry an emotion
BothFailuresResolved ==
    /\ requests = {} /\ Len(settled) = 2
    /\ settled[1].failed /\ settled[2].failed
    /\ BotMessageOf(settled[1]).text = NoReplyText
    /\ BotMessageOf(settled[2]).text = NotOkText
    /\ BotMessageOf(settled[1]).emotion # NoEmotion
    /\ BotMessageOf(settled[2]).emotion # NoEmotion

NonSeedBots == Len(messages) - 1 - Len(UserMessages)
SettledTurns == {settled[i].turn : i \in 1..Len(settled)}

HistoryCounts ==
    /\ messages[1] = SeedMessage
    /\ NonSeedBots <= Len(UserMessages)
    /\ NonSeedBots = Len(settled)
    /\ Cardinality(SettledTurns) = Len(settled)
    /\ requests = {} =>
          /\ NonSeedBots = Len(UserMessages)
          /\ SettledTurns = 1..Len(submitted)
          /\ \A i \in 1..Len(settled) :
                /\ BotMessageOf(settled[i]).sender = "bot"
                /\ settled[i].botId + 1 > UserIndex(settled[i].turn)

\* C24: in whatever order turns are submitted and requests settle, the seed
\* greeting stays first and every step only appends to the history; there are
\* never more bot messages after the seed than user messages; and when no
\* request is in flight every turn has exactly one bot message, appended after
\* its user message.
HistoryAppendOnly ==
    /\ []HistoryCounts
    /\ [][ /\ IsPrefix(messages, messages')
           /\ Len(messages') <= Len(messages) + 1 ]_vars

\* the second turn was submitted while the first was in flight, and its request
\* settled first
SettledOutOfOrder ==
    /\ overlapped /\ requests = {}
    /\ Len(settled) = 2 /\ settled[1].turn = 2 /\ settled[2].turn = 1
    /\ [i \in 1..Len(messages) |-> messages[i].sender] =
          <<"bot", "user", "user", "bot", "bot">>

====
